---- MODULE Spec2Model ----
(***************************************************************************)
(* A model of mongo.py: MongoObjectStore, an object store that keeps git   *)
(* objects as documents {_id, type, data} of the 'objects' collection of a *)
(* MongoDB database, and its pack ingestion (add_pack).                    *)
(*                                                                         *)
(* The database is the pymongo driver the module imports (MongoClient,     *)
(* acknowledged writes): _id is unique, insert of a stored _id raises      *)
(* DuplicateKeyError, a bulk insert is ordered and stops at the first      *)
(* error, an empty bulk insert raises InvalidOperation.  findOne is taken  *)
(* as the driver's find-one lookup by _id.                                 *)
(*                                                                         *)
(* Every method returns a record with the exception it raises in err       *)
(* ("" when it returns normally) and its return value in ret.              *)
(***************************************************************************)
EXTENDS Integers, Sequences, FiniteSets, TLC

\* ------------------------------------------------------------------ bounds
NData == 2          \* distinct blob contents
MaxBatch == 3       \* longest batch handed to add_objects
MaxBuf == 2         \* most pack tokens written to one sink

\* ------------------------------------------------------- python values
None == {}
Some(v) == {v}

Return(v) == [err |-> "", ret |-> v]
Raise(e) == [err |-> e, ret |-> None]

\* The names a function body can resolve besides its own parameters: the
\* module's imports and classes (there is no module-level name 'sha').
ModuleGlobals ==
    {"BytesIO", "ShaFile", "MemoryObjectStore", "PackData", "PackInflater",
     "DictRefsContainer", "BaseRepo", "MongoClient",
     "MongoObjectStore", "MongoRefsContainer", "MongoRepo"}

Bound(params, name) == name \in params \cup ModuleGlobals

\* --------------------------------------------------------- object model
\* type_num is 2 for a tree and 3 for a blob; fields is an object's content.
Payloads == 0 .. (NData - 1)

\* str(obj): the raw serialisation of an object's content.
str(fields) == <<"raw", fields>>

\* ShaFile.id: the content hash of (type_num, serialised content).
sha(type_num, data) == type_num * 10 + data[2]

\* A ShaFile instance: its id is the hash of its type and content.
ShaFile(t, d) == [type_num |-> t, fields |-> d, id |-> sha(t, str(d))]

\* The objects callers hold: a blob of every payload, and one tree.
Objects == {ShaFile(3, d) : d \in Payloads} \cup {ShaFile(2, 0)}

Ids == {o.id : o \in Objects}

\* ShaFile.from_raw_string(type_num, string, sha)
from_raw_string(type_num, string, id) ==
    [type_num |-> type_num, fields |-> string[2], id |-> id]

\* ------------------------------------------------------------ database
\* collection.findOne({'_id': id}): the document with that _id, if any.
findOne(c, id) == IF id \in DOMAIN c THEN Some(c[id]) ELSE None

RECURSIVE insert_docs(_, _)
insert_docs(c, docs) ==
    IF docs = <<>> THEN [coll |-> c, err |-> ""]
    ELSE IF Head(docs)._id \in DOMAIN c
         THEN [coll |-> c, err |-> "DuplicateKeyError"]
         ELSE insert_docs(c @@ (Head(docs)._id :> Head(docs)), Tail(docs))

\* collection.insert(doc_or_docs), docs given as a sequence.
insert(c, docs) ==
    IF docs = <<>> THEN [coll |-> c, err |-> "InvalidOperation"]
    ELSE insert_docs(c, docs)

RECURSIVE Perms(_)
Perms(S) ==
    IF S = {} THEN {<<>>}
    ELSE UNION {{<<x>> \o p : p \in Perms(S \ {x})} : x \in S}

\* collection.find({}, {'_id': True}): every document, in some order,
\* projected on _id.
find_ids(c) == Perms({c[i]._id : i \in DOMAIN c})

\* MemoryObjectStore._to_hexsha for the 40-character hex names used here.
_to_hexsha(name) == name

\* ------------------------------------------------------------ pack model
\* What is written to a sink, token by token: a full entry <<"full", type,
\* data>>, a ref-delta entry <<"delta", base id, delta>>, or bytes that are
\* not a pack <<"junk", 0, 0>>.
FullTok(o) == <<"full", o.type_num, str(o.fields)>>
DeltaTok(base, d) == <<"delta", base, d>>
JunkTok == <<"junk", 0, 0>>
Tokens ==
    {FullTok(o) : o \in Objects} \cup {DeltaTok(b, 1) : b \in Ids}
        \cup {JunkTok}

\* apply_delta: the content a delta produces from its base's content.
apply_delta(data, d) == str((data[2] + d) % NData)

\* The object a (type_num, data) pair inflates to.
ShaFileOf(type_num, data) ==
    from_raw_string(type_num, data, sha(type_num, data))

VARIABLES
    coll,      \* db['objects']: _id -> document {_id, type, data}
    f,         \* the sink of the current add_pack call
    last,      \* the last call: its name, argument, exception, result
    inserted,  \* history: ids of the objects whose insertion was accepted
    refs,      \* the MongoRefsContainer instance and db['refs']
    g,         \* the sink of a second, concurrent add_pack call
    w          \* concurrent writers: the insert each one is in

vars == <<coll, f, last, inserted, refs, g, w>>

\* What the store's sequential calls leave alone.
others == <<refs, g, w>>

RefNames == {"main", "dev"}
Writers == {"w1", "w2"}

\* MongoRefsContainer.__init__: sets self.coll and self.db and nothing else
\* (DictRefsContainer.__init__, which sets self._refs, is not called).
\* dict is the content self._refs would have, docs is db['refs'], and asked
\* is the history of what set and remove were last asked for each name.
RefsInit ==
    [attrs |-> {"coll", "db"},
     dict |-> <<>>,
     docs |-> <<>>,
     asked |-> [n \in RefNames |-> None]]

\* The entry of asked for a name that remove was last asked to delete (0 is
\* no object id).
Removed == Some(0)

Idle == [pc |-> "idle", docs |-> <<>>, ids |-> {}, err |-> ""]

NoSink == [state |-> "none", buf |-> <<>>, closed |-> FALSE]

Call(op, arg, err, ret, added) ==
    [op |-> op, arg |-> arg, err |-> err, ret |-> ret, added |-> added]

Init ==
    /\ coll = <<>>
    /\ f = NoSink
    /\ last = Call("init", None, "", None, {})
    /\ inserted = {}
    /\ refs = RefsInit
    /\ g = NoSink
    /\ w = [x \in Writers |-> Idle]

\* --------------------------------------------------------------- reads
\* __iter__ as MemoryObjectStore has it: over the ids of the in-memory
\* dictionary self._data, which this store never fills.
iter_memory(c) == Perms({})

\* MongoObjectStore.__iter__: the possible id sequences it can return.
__iter__(c) == find_ids(c)

\* MongoObjectStore._data_to_obj
_data_to_obj(db_entry) ==
    from_raw_string(db_entry.type, db_entry.data, db_entry._id)

\* MongoObjectStore.__getitem__(self, name): the lookup key is built from
\* the name 'sha', which is neither a parameter nor a module global.
__getitem__(c, name) ==
    LET params == {"self", "name"} IN
    IF ~Bound(params, "sha") THEN Raise("NameError")
    ELSE LET entry == findOne(c, _to_hexsha(name)) IN
         IF entry = None THEN Raise("KeyError")
         ELSE Return(Some(_data_to_obj(CHOOSE e \in entry : TRUE)))

\* MongoObjectStore.get_raw(self, name): same unbound name.
get_raw(c, name) ==
    LET params == {"self", "name"} IN
    IF ~Bound(params, "sha") THEN Raise("NameError")
    ELSE LET entry == findOne(c, _to_hexsha(name)) IN
         IF entry = None THEN Return(<<None, None>>)
         ELSE LET e == CHOOSE e \in entry : TRUE
              IN Return(<<Some(e.type), Some(e.data)>>)

\* MongoObjectStore.contains_loose(self, sha)
contains_loose(c, sha_) ==
    LET params == {"self", "sha"} IN
    IF ~Bound(params, "sha") THEN Raise("NameError")
    ELSE Return(findOne(c, _to_hexsha(sha_)) # None)

\* -------------------------------------------------------------- writes
\* A document that records every object as a blob.
Doc_as_blob(obj) == [_id |-> obj.id, type |-> 3, data |-> str(obj.fields)]

Doc(obj) == [_id |-> obj.id, type |-> obj.type_num, data |-> str(obj.fields)]

\* MongoObjectStore.add_object
add_object(c, obj) == insert(c, <<Doc(obj)>>)

\* The elements of an iterable given to add_objects: (obj, path) tuples, as
\* its docstring asks for, or bare objects.
Pair(o) == <<"pair", o>>
Bare(o) == <<"bare", o>>

RECURSIVE docs_of(_)
\* The list comprehension of add_objects: 'for obj, path in objects'
\* unpacks every element; an element that is not a 2-tuple raises.
docs_of(items) ==
    IF items = <<>> THEN [docs |-> <<>>, err |-> ""]
    ELSE IF Head(items)[1] # "pair" THEN [docs |-> <<>>, err |-> "TypeError"]
    ELSE LET rest == docs_of(Tail(items)) IN
         IF rest.err # "" THEN rest
         ELSE [docs |-> <<Doc(Head(items)[2])>> \o rest.docs, err |-> ""]

\* An add_objects that, when its insert fails, deletes the documents with
\* the ids of its batch.
add_objects_rollback(c, objects) ==
    LET d == docs_of(objects.items) IN
    IF d.err # "" THEN [coll |-> c, err |-> d.err]
    ELSE IF objects.err # "" THEN [coll |-> c, err |-> objects.err]
    ELSE LET r == insert(c, d.docs)
             ids == {d.docs[i]._id : i \in DOMAIN d.docs}
         IN IF r.err = "" THEN r
            ELSE [coll |-> [i \in DOMAIN c \ ids |-> c[i]], err |-> r.err]

\* MongoObjectStore.add_objects(objects); objects is an iterable that
\* yields objects.items and then raises objects.err, if that is not "".
add_objects(c, objects) ==
    LET d == docs_of(objects.items) IN
    IF d.err # "" THEN [coll |-> c, err |-> d.err]
    ELSE IF objects.err # "" THEN [coll |-> c, err |-> objects.err]
    ELSE insert(c, d.docs)

\* ------------------------------------------------------ pack ingestion
\* PackData.from_file: the entries of the buffered bytes; bytes that are
\* not a pack stream (or no bytes at all) fail to parse.
from_file(buf) ==
    IF buf = <<>> \/ \E i \in DOMAIN buf : buf[i][1] = "junk"
    THEN Raise("CorruptPackError")
    ELSE Return(buf)

Without(s, i) == [j \in 1 .. (Len(s) - 1) |-> IF j < i THEN s[j] ELSE s[j + 1]]

RECURSIVE follow_chain(_, _)
\* Resolve the deltas whose base is an object already inflated from this
\* pack, until none is left that can be.
follow_chain(resolved, pending) ==
    LET ready == {i \in DOMAIN pending :
                    \E j \in DOMAIN resolved : resolved[j].id = pending[i][2]}
    IN IF ready = {} THEN [objs |-> resolved, pending |-> pending]
       ELSE LET i == CHOOSE k \in ready : \A m \in ready : k <= m
                b == CHOOSE j \in DOMAIN resolved :
                        resolved[j].id = pending[i][2]
                obj == ShaFileOf(resolved[b].type_num,
                           apply_delta(str(resolved[b].fields), pending[i][3]))
            IN follow_chain(Append(resolved, obj), Without(pending, i))

RECURSIVE walk_ref_chains(_, _, _)
\* The deltas left have a base outside the pack: ask resolve_ext_ref, which
\* is the store's get_raw, for it.
walk_ref_chains(resolved, pending, c) ==
    IF pending = <<>> THEN [items |-> resolved, err |-> ""]
    ELSE LET r == get_raw(c, Head(pending)[2]) IN
         IF r.err # "" THEN [items |-> resolved, err |-> r.err]
         ELSE IF r.ret = <<None, None>>
              THEN [items |-> resolved, err |-> "TypeError"]
         ELSE LET t == CHOOSE x \in r.ret[1] : TRUE
                  d == CHOOSE x \in r.ret[2] : TRUE
                  obj == ShaFileOf(t, apply_delta(d, Head(pending)[3]))
                  n == follow_chain(Append(resolved, obj), Tail(pending))
              IN walk_ref_chains(n.objs, n.pending, c)

\* PackInflater.for_pack_data(p, self.get_raw): the iterable of the objects
\* of the pack: the full entries, the deltas that chain to them, then the
\* deltas against stored objects.
for_pack_data(entries, c) ==
    LET fulls == SelectSeq(entries, LAMBDA e : e[1] = "full")
        deltas == SelectSeq(entries, LAMBDA e : e[1] = "delta")
        n == follow_chain([i \in DOMAIN fulls |->
                              ShaFileOf(fulls[i][2], fulls[i][3])], deltas)
    IN walk_ref_chains(n.objs, n.pending, c)

RECURSIVE insert_each(_, _)
\* Insert the objects of the full entries one by one, as they are read, up
\* to the first token that does not parse.
insert_each(c, buf) ==
    IF buf = <<>> \/ Head(buf)[1] = "junk" THEN c
    ELSE IF Head(buf)[1] = "full"
         THEN insert_each(
                add_object(c, ShaFileOf(Head(buf)[2], Head(buf)[3])).coll,
                Tail(buf))
         ELSE insert_each(c, Tail(buf))

\* A commit that persists while it parses.
commit_streaming(c, sink) ==
    IF sink.closed THEN [coll |-> c, closed |-> TRUE, err |-> "ValueError"]
    ELSE LET p == from_file(sink.buf) IN
         [coll |-> insert_each(c, sink.buf), closed |-> p.err = "",
          err |-> IF p.err # "" THEN p.err ELSE "TypeError"]

\* commit() of add_pack.  The argument of its add_objects call (lines
\* 143-145) is a generator over the inflater written without its element
\* expression; it is read as the generator of the inflater's objects.
commit(c, sink) ==
    IF sink.closed THEN [coll |-> c, closed |-> TRUE, err |-> "ValueError"]
    ELSE LET p == from_file(sink.buf) IN
         IF p.err # "" THEN [coll |-> c, closed |-> FALSE, err |-> p.err]
         ELSE LET objs == for_pack_data(p.ret, c)
                  r == add_objects(c,
                         [items |-> [i \in DOMAIN objs.items |->
                                        Bare(objs.items[i])],
                          err |-> objs.err])
              IN [coll |-> r.coll, closed |-> TRUE, err |-> r.err]

\* An abort that flushes what was buffered.
abort_flushing(c, sink) ==
    [coll |-> insert_each(c, sink.buf), closed |-> sink.closed, err |-> ""]

\* abort() of add_pack: pass.
abort(c, sink) == [coll |-> c, closed |-> sink.closed, err |-> ""]

Added(c1, c2) == DOMAIN c2 \ DOMAIN c1

\* The ids of the objects of a call whose insertion the database accepted:
\* all of them when the call returned, those it reports written otherwise.
Accepted(c, objs, r) ==
    IF r.err = "" THEN {objs[i].id : i \in DOMAIN objs}
    ELSE {objs[i].id : i \in DOMAIN objs} \cap Added(c, r.coll)

Range(s) == {s[i] : i \in DOMAIN s}

Batches == UNION {[1 .. n -> Objects] : n \in 0 .. MaxBatch}

Iter ==
    /\ \E s \in __iter__(coll) :
         last' = Call("iter", None, "", s, {})
    /\ UNCHANGED <<coll, f, inserted>>
    /\ UNCHANGED others

GetItem(name) ==
    /\ LET r == __getitem__(coll, name)
       IN last' = Call("getitem", name, r.err, r.ret, {})
    /\ UNCHANGED <<coll, f, inserted>>
    /\ UNCHANGED others

GetRaw(name) ==
    /\ LET r == get_raw(coll, name)
       IN last' = Call("get_raw", name, r.err, r.ret, {})
    /\ UNCHANGED <<coll, f, inserted>>
    /\ UNCHANGED others

Contains(name) ==
    /\ LET r == contains_loose(coll, name)
       IN last' = Call("contains", name, r.err, r.ret, {})
    /\ UNCHANGED <<coll, f, inserted>>
    /\ UNCHANGED others

AddObject(o) ==
    /\ LET r == add_object(coll, o) IN
         /\ coll' = r.coll
         /\ last' = Call("add_object", o, r.err, None, Added(coll, r.coll))
         /\ inserted' = inserted \cup Accepted(coll, <<o>>, r)
    /\ UNCHANGED f
    /\ UNCHANGED others

AddObjects(batch) ==
    /\ LET items == [i \in DOMAIN batch |-> Pair(batch[i])]
           r == add_objects(coll, [items |-> items, err |-> ""])
       IN
         /\ coll' = r.coll
         /\ last' = Call("add_objects", batch, r.err, None, Added(coll, r.coll))
         /\ inserted' = inserted \cup Accepted(coll, batch, r)
    /\ UNCHANGED f
    /\ UNCHANGED others

\* add_pack(): a new BytesIO and its commit and abort.
AddPack ==
    /\ f' = [state |-> "open", buf |-> <<>>, closed |-> FALSE]
    /\ last' = Call("add_pack", None, "", None, {})
    /\ UNCHANGED <<coll, inserted>>
    /\ UNCHANGED others

\* f.write(bytes)
Write(tok) ==
    /\ f.state = "open"
    /\ Len(f.buf) < MaxBuf
    /\ IF f.closed
       THEN /\ last' = Call("write", tok, "ValueError", None, {})
            /\ UNCHANGED f
       ELSE /\ last' = Call("write", tok, "", None, {})
            /\ f' = [f EXCEPT !.buf = Append(@, tok)]
    /\ UNCHANGED <<coll, inserted>>
    /\ UNCHANGED others

Commit ==
    /\ f.state = "open"
    /\ LET r == commit(coll, f) IN
         /\ coll' = r.coll
         /\ f' = [f EXCEPT !.closed = r.closed]
         /\ last' = Call("commit", f, r.err, None, Added(coll, r.coll))
         /\ inserted' = inserted \cup Added(coll, r.coll)
    /\ UNCHANGED others

Abort ==
    /\ f.state = "open"
    /\ LET r == abort(coll, f) IN
         /\ coll' = r.coll
         /\ f' = [f EXCEPT !.closed = r.closed]
         /\ last' = Call("abort", f, r.err, None, Added(coll, r.coll))
    /\ UNCHANGED inserted
    /\ UNCHANGED others

\* ------------------------------------------------------ refs container
\* MongoRefsContainer defines __init__ only; set, get and remove are those
\* DictRefsContainer gives it, which all work on the attribute self._refs.
refs_set(r, name, id) ==
    IF "_refs" \notin r.attrs THEN [refs |-> r, err |-> "AttributeError"]
    ELSE [refs |-> [r EXCEPT !.dict =
                       [n \in DOMAIN @ \cup {name} |->
                           IF n = name THEN id ELSE @[n]]],
          err |-> ""]

refs_get(r, name) ==
    IF "_refs" \notin r.attrs THEN Raise("AttributeError")
    ELSE IF name \notin DOMAIN r.dict THEN Raise("KeyError")
    ELSE Return(Some(r.dict[name]))

refs_remove(r, name) ==
    IF "_refs" \notin r.attrs THEN [refs |-> r, err |-> "AttributeError"]
    ELSE [refs |-> [r EXCEPT !.dict =
                       [n \in DOMAIN @ \ {name} |-> @[n]]],
          err |-> ""]

SetRef(name, id) ==
    /\ LET r == refs_set(refs, name, id) IN
         /\ refs' = [r.refs EXCEPT !.asked[name] = Some(id)]
         /\ last' = Call("ref_set", <<name, id>>, r.err, None, {})
    /\ UNCHANGED <<coll, f, inserted, g, w>>

GetRef(name) ==
    /\ LET r == refs_get(refs, name)
       IN last' = Call("ref_get", name, r.err, r.ret, {})
    /\ UNCHANGED <<coll, f, inserted, refs, g, w>>

RemoveRef(name) ==
    /\ LET r == refs_remove(refs, name) IN
         /\ refs' = [r.refs EXCEPT !.asked[name] = Removed]
         /\ last' = Call("ref_remove", name, r.err, None, {})
    /\ UNCHANGED <<coll, f, inserted, g, w>>

\* A repository's two containers over one database.
RefsNext ==
    \/ \E name \in RefNames, id \in Ids : SetRef(name, id)
    \/ \E name \in RefNames : GetRef(name)
    \/ \E name \in RefNames : RemoveRef(name)
    \/ \E o \in Objects : AddObject(o)
    \/ \E name \in Ids : GetRaw(name)
    \/ \E name \in Ids : Contains(name)

RefsSpec == Init /\ [][RefsNext]_vars

\* -------------------------------------------------- concurrent writers
\* Two callers inside add_object or add_objects at the same time.  The
\* store takes no lock: each call is one insert, which the database carries
\* out document by document, in order, up to the first one it rejects.
RaceBatches == {b \in Batches : Len(b) \in 1 .. 2}

BeginAddObject(x, o) ==
    /\ w[x].pc = "idle"
    /\ w' = [w EXCEPT ![x] = [pc |-> "insert", docs |-> <<Doc(o)>>,
                              ids |-> {o.id}, err |-> ""]]
    /\ UNCHANGED <<coll, f, last, inserted, refs, g>>

BeginAddObjects(x, batch) ==
    /\ w[x].pc = "idle"
    /\ LET d == docs_of([i \in DOMAIN batch |-> Pair(batch[i])]) IN
       w' = [w EXCEPT ![x] = [pc |-> "insert", docs |-> d.docs,
                              ids |-> {batch[i].id : i \in DOMAIN batch},
                              err |-> ""]]
    /\ UNCHANGED <<coll, f, last, inserted, refs, g>>

\* The database takes the next document of writer x's insert.
InsertStep(x) ==
    /\ w[x].pc = "insert"
    /\ LET r == insert(coll, <<Head(w[x].docs)>>) IN
         /\ coll' = r.coll
         /\ inserted' = inserted \cup Added(coll, r.coll)
         /\ w' = [w EXCEPT ![x] =
                    IF r.err # "" THEN [@ EXCEPT !.pc = "done", !.err = r.err]
                    ELSE IF Len(@.docs) = 1 THEN [@ EXCEPT !.pc = "done"]
                    ELSE [@ EXCEPT !.docs = Tail(@)]]
    /\ UNCHANGED <<f, last, refs, g>>

\* The call of writer x returns (or raises) to its caller.
EndCall(x) ==
    /\ w[x].pc = "done"
    /\ w' = [w EXCEPT ![x] = Idle]
    /\ UNCHANGED <<coll, f, last, inserted, refs, g>>

RaceNext ==
    \/ \E x \in Writers, o \in Objects : BeginAddObject(x, o)
    \/ \E x \in Writers, batch \in RaceBatches : BeginAddObjects(x, batch)
    \/ \E x \in Writers : InsertStep(x)
    \/ \E x \in Writers : EndCall(x)

RaceSpec == Init /\ [][RaceNext]_vars

\* ------------------------------------------------ a second pack session
\* The same add_pack, write, commit and abort on the sink of a second call
\* of add_pack that is open at the same time as the first.
AddPack2 ==
    /\ g' = [state |-> "open", buf |-> <<>>, closed |-> FALSE]
    /\ last' = Call("add_pack", None, "", None, {})
    /\ UNCHANGED <<coll, f, inserted, refs, w>>

Write2(tok) ==
    /\ g.state = "open"
    /\ Len(g.buf) < MaxBuf
    /\ IF g.closed
       THEN /\ last' = Call("write", tok, "ValueError", None, {})
            /\ UNCHANGED g
       ELSE /\ last' = Call("write", tok, "", None, {})
            /\ g' = [g EXCEPT !.buf = Append(@, tok)]
    /\ UNCHANGED <<coll, f, inserted, refs, w>>

Commit2 ==
    /\ g.state = "open"
    /\ LET r == commit(coll, g) IN
         /\ coll' = r.coll
         /\ g' = [g EXCEPT !.closed = r.closed]
         /\ last' = Call("commit", g, r.err, None, Added(coll, r.coll))
         /\ inserted' = inserted \cup Added(coll, r.coll)
    /\ UNCHANGED <<f, refs, w>>

Abort2 ==
    /\ g.state = "open"
    /\ LET r == abort(coll, g) IN
         /\ coll' = r.coll
         /\ g' = [g EXCEPT !.closed = r.closed]
         /\ last' = Call("abort", g, r.err, None, Added(coll, r.coll))
    /\ UNCHANGED <<f, inserted, refs, w>>

TwoPackNext ==
    \/ AddPack
    \/ \E tok \in Tokens : Write(tok)
    \/ Commit
    \/ Abort
    \/ AddPack2
    \/ \E tok \in Tokens : Write2(tok)
    \/ Commit2
    \/ Abort2

\* Two pack sessions over an empty store.
TwoPackSpec == Init /\ [][TwoPackNext]_vars

\* -------------------------------------------------- every writing call
\* add_object, add_objects and pack ingestion together, over batches of at
\* most two objects and packs of full entries, one delta and junk.
WriteBatches == {b \in Batches : Len(b) <= 2}
WriteTokens ==
    {FullTok(o) : o \in Objects} \cup {DeltaTok(ShaFile(3, 0).id, 1), JunkTok}

WriteNext ==
    \/ \E o \in Objects : AddObject(o)
    \/ \E batch \in WriteBatches : AddObjects(batch)
    \/ AddPack
    \/ \E tok \in WriteTokens : Write(tok)
    \/ Commit
    \/ Abort

WriteSpec == Init /\ [][WriteNext]_vars

StoreNext ==
    \/ Iter
    \/ \E name \in Ids : GetItem(name)
    \/ \E name \in Ids : GetRaw(name)
    \/ \E name \in Ids : Contains(name)
    \/ \E o \in Objects : AddObject(o)
    \/ \E batch \in Batches : AddObjects(batch)

PackNext ==
    \/ \E o \in Objects : AddObject(o)
    \/ AddPack
    \/ \E tok \in Tokens : Write(tok)
    \/ Commit
    \/ Abort

Next == StoreNext \/ PackNext \/ RefsNext \/ RaceNext \/ TwoPackNext

Spec == Init /\ [][Next]_vars

\* The store's calls without pack ingestion.
StoreSpec == Init /\ [][StoreNext]_vars

\* Pack ingestion over a store filled by add_object.
PackSpec == Init /\ [][PackNext]_vars

\* --------------------------------------------------------- properties
TheOne(S) == CHOOSE x \in S : TRUE

ObjectOf(id) == CHOOSE o \in Objects : o.id = id

\* The ids of the objects a pack can inflate from its own entries.
PackIds(buf) ==
    LET fulls == SelectSeq(buf, LAMBDA e : e[1] = "full")
        deltas == SelectSeq(buf, LAMBDA e : e[1] = "delta")
        n == follow_chain([i \in DOMAIN fulls |->
                              ShaFileOf(fulls[i][2], fulls[i][3])], deltas)
    IN {n.objs[i].id : i \in DOMAIN n.objs}

Malformed(buf) == from_file(buf).err # ""

\* C1 (round trip): a get of the id of an object that add_object stored
\* returns, without raising, an object with that object's type and
\* serialised payload.
C1_RoundTrip ==
    (last.op = "getitem" /\ last.arg \in inserted) =>
        /\ last.err = ""
        /\ last.ret # None
        /\ TheOne(last.ret).type_num = ObjectOf(last.arg).type_num
        /\ str(TheOne(last.ret).fields) = str(ObjectOf(last.arg).fields)

\* C2 (idempotent insert): an add_object of an object that is already
\* stored does not fail, changes no document, and leaves the object
\* contained.
C2_IdempotentInsert ==
    (last.op = "add_object" /\ last.added = {}) =>
        /\ last.err = ""
        /\ contains_loose(coll, last.arg.id).ret = TRUE

\* C3 (miss semantics): for an id that was never inserted, contains returns
\* false without raising, get raises KeyError, and get_raw returns
\* (None, None) without raising.
C3_MissSemantics ==
    /\ (last.op = "contains" /\ last.arg \notin inserted) =>
           (last.err = "" /\ last.ret = FALSE)
    /\ (last.op = "getitem" /\ last.arg \notin inserted) =>
           last.err = "KeyError"
    /\ (last.op = "get_raw" /\ last.arg \notin inserted) =>
           (last.err = "" /\ last.ret = <<None, None>>)

\* C4 (pack ingestion equivalence): after the commit of a pack made of a
\* full object A and a delta B against A, both ids are contained and the
\* document under B's id is that of B's delta applied to A.
C4_PackEquivalence ==
    \A a \in Objects :
        (/\ last.op = "commit"
         /\ ~last.arg.closed
         /\ last.arg.buf = <<FullTok(a), DeltaTok(a.id, 1)>>) =>
            LET b == ShaFileOf(a.type_num, apply_delta(str(a.fields), 1)) IN
            /\ contains_loose(coll, a.id).ret = TRUE
            /\ contains_loose(coll, b.id).ret = TRUE
            /\ coll[b.id] = Doc(b)

\* A well-formed pack with a delta whose base is neither in the pack nor
\* stored.
Dangling(buf, c) ==
    /\ ~Malformed(buf)
    /\ \E i \in DOMAIN buf :
         /\ buf[i][1] = "delta"
         /\ buf[i][2] \notin PackIds(buf)
         /\ buf[i][2] \notin DOMAIN c

\* C5 (dangling delta rejection): the commit of a pack with a dangling
\* delta fails with DanglingDeltaError and persists no entry of the pack.
C5_DanglingDeltaRejected ==
    (/\ last.op = "commit"
     /\ ~last.arg.closed
     /\ Dangling(last.arg.buf, coll)) =>
        (last.err = "DanglingDeltaError" /\ last.added = {})

\* C6 (atomic commit on a malformed pack): the commit of bytes that do not
\* parse fails with CorruptPackError, and a commit that fails has added no
\* document.
C6_CorruptPackAtomic ==
    last.op = "commit" =>
        /\ (~last.arg.closed /\ Malformed(last.arg.buf)) =>
               last.err = "CorruptPackError"
        /\ last.err # "" => last.added = {}

\* a commit failed on bytes that hold a full entry of an object not stored
\* and then stop parsing
C6_Witness ==
    /\ last.op = "commit"
    /\ last.err = "CorruptPackError"
    /\ Len(last.arg.buf) = 2
    /\ last.arg.buf[1][1] = "full"
    /\ last.arg.buf[2][1] = "junk"
    /\ sha(last.arg.buf[1][2], last.arg.buf[1][3]) \notin DOMAIN coll

\* C7 (abort discards): add_pack, the writes to the sink and abort leave
\* every stored document, and so all_ids, as they were; abort does not
\* parse the bytes, so it returns normally whatever they are.
C7_AbortDiscards ==
    [][/\ last'.op \in {"add_pack", "write", "abort"} =>
            (coll' = coll /\ __iter__(coll') = __iter__(coll))
       /\ last'.op = "abort" => (last'.err = "" /\ last'.added = {})]_vars

\* an abort of a sink holding a full entry of an object that is not stored,
\* over a store that holds another object
C7_Witness ==
    /\ last.op = "abort"
    /\ coll # <<>>
    /\ \E i \in DOMAIN last.arg.buf :
         /\ last.arg.buf[i][1] = "full"
         /\ sha(last.arg.buf[i][2], last.arg.buf[i][3]) \notin DOMAIN coll

\* C8 (enumeration completeness): what __iter__ returns is a sequence
\* without repetition of exactly the ids that were inserted.
C8_EnumerationComplete ==
    last.op = "iter" =>
        /\ Range(last.ret) = inserted
        /\ Len(last.ret) = Cardinality(inserted)

\* an enumeration of a store in which three objects were inserted
C8_Witness ==
    /\ last.op = "iter"
    /\ Cardinality(inserted) >= 3
    /\ Len(last.ret) >= 3

\* C9 (add_objects is all-or-none): after add_objects, every object of the
\* batch is stored or the call has added none.
C9_AllOrNone ==
    last.op = "add_objects" =>
        \/ {last.arg[i].id : i \in DOMAIN last.arg} \subseteq DOMAIN coll
        \/ last.added = {}

\* C10 (empty batch): add_objects of an empty batch returns normally and
\* adds nothing.
C10_EmptyBatchNoOp ==
    (last.op = "add_objects" /\ last.arg = <<>>) =>
        (last.err = "" /\ last.added = {})

\* C11 (refs overwrite and removal): a get of a name returns the id the
\* last set of that name gave it, and raises KeyError after its removal;
\* what it returns is what db['refs'] holds for the name.
C11_RefsLastWriterWins ==
    (last.op = "ref_get" /\ refs.asked[last.arg] # None) =>
        IF refs.asked[last.arg] = Removed
        THEN last.err = "KeyError"
        ELSE /\ last.err = ""
             /\ last.ret = refs.asked[last.arg]
             /\ last.arg \in DOMAIN refs.docs
             /\ Some(refs.docs[last.arg]) = last.ret

\* C12 (concurrent inserts of the same object): when two concurrent calls
\* that insert the same objects have both finished, neither has raised and
\* the store holds the document of each of those objects.
C12_ConcurrentSameId ==
    (/\ w["w1"].pc = "done"
     /\ w["w2"].pc = "done"
     /\ w["w1"].ids = w["w2"].ids) =>
        /\ w["w1"].err = ""
        /\ w["w2"].err = ""
        /\ \A id \in w["w1"].ids :
             id \in DOMAIN coll /\ coll[id] = Doc(ObjectOf(id))

\* A well-formed pack of full entries only.
AllFull(buf) ==
    /\ ~Malformed(buf)
    /\ \A i \in DOMAIN buf : buf[i][1] = "full"

\* C13 (racing sessions with overlapping packs): when the second of two
\* sessions whose packs share an object has committed, that commit has
\* succeeded and the store holds exactly the objects of the two packs.
C13_OverlappingSessions ==
    (/\ last.op = "commit"
     /\ ~last.arg.closed
     /\ AllFull(f.buf) /\ AllFull(g.buf)
     /\ f.closed /\ g.closed
     /\ PackIds(f.buf) \cap PackIds(g.buf) # {}) =>
        /\ last.err = ""
        /\ DOMAIN coll = PackIds(f.buf) \cup PackIds(g.buf)

\* mine has just been committed and holds a delta whose base only the
\* pack of the other session, which is not committed, can provide
DependsOnOther(mine, other) ==
    /\ last.arg.buf = mine.buf
    /\ mine.closed
    /\ other.state = "open" /\ ~other.closed
    /\ ~Malformed(mine.buf)
    /\ \E i \in DOMAIN mine.buf :
         /\ mine.buf[i][1] = "delta"
         /\ mine.buf[i][2] \notin PackIds(mine.buf)
         /\ mine.buf[i][2] \notin DOMAIN coll
         /\ mine.buf[i][2] \in PackIds(other.buf)

\* C14 (independent sessions): a commit whose delta depends on an object
\* that only a second, uncommitted session holds fails with
\* DanglingDeltaError and persists nothing.
C14_NoCrossSessionBase ==
    (/\ last.op = "commit"
     /\ ~last.arg.closed
     /\ (DependsOnOther(f, g) \/ DependsOnOther(g, f))) =>
        (last.err = "DanglingDeltaError" /\ last.added = {})

\* C15 (a sink is finalised once): after commit or abort the sink is
\* closed, so it accepts no further bytes and cannot be committed again.
C15_SinkReleased ==
    last.op \in {"commit", "abort"} => f.closed

\* C16 (stored data is immutable): no step removes a stored id or changes
\* the document stored under it.
C16_StoredDataImmutable ==
    [][\A id \in DOMAIN coll : id \in DOMAIN coll' /\ coll'[id] = coll[id]]_vars

\* an add_objects that stored one object and was then refused one that was
\* stored already
C16_Witness ==
    /\ last.op = "add_objects"
    /\ last.err = "DuplicateKeyError"
    /\ last.added # {}
    /\ DOMAIN coll # last.added

\* C17 (content addressing): every stored document is filed under its _id,
\* and its _id is the hash of its type and data.
C17_ContentAddressed ==
    \A id \in DOMAIN coll :
        /\ coll[id]._id = id
        /\ coll[id]._id = sha(coll[id].type, coll[id].data)

\* the tree and a blob are stored, and a commit has been attempted
C17_Witness ==
    /\ last.op = "commit"
    /\ \E i, j \in DOMAIN coll : coll[i].type = 2 /\ coll[j].type = 3

\* C18 (stateless facades): what was written through one instance is what
\* any instance reads from the database: an inserted object is found by
\* contains and get_raw, and a ref that was set is in db['refs'].
C18_ReadsObserveWrites ==
    /\ (last.op = "contains" /\ last.arg \in inserted) =>
           (last.err = "" /\ last.ret = TRUE)
    /\ (last.op = "get_raw" /\ last.arg \in inserted) =>
           /\ last.err = ""
           /\ last.ret = <<Some(ObjectOf(last.arg).type_num),
                           Some(str(ObjectOf(last.arg).fields))>>
    /\ \A n \in RefNames :
           (refs.asked[n] # None /\ refs.asked[n] # Removed) =>
               (n \in DOMAIN refs.docs /\ Some(refs.docs[n]) = refs.asked[n])

\* C19 (commit hands add_objects what it consumes): the commit of a pack of
\* full entries of distinct objects, none of them stored, returns normally
\* and has added one document for each of them.
C19_CommitFeedsAddObjects ==
    (/\ last.op = "commit"
     /\ ~last.arg.closed
     /\ AllFull(last.arg.buf)
     /\ Cardinality(PackIds(last.arg.buf)) = Len(last.arg.buf)
     /\ PackIds(last.arg.buf) \cap (DOMAIN coll \ last.added) = {}) =>
        /\ last.err = ""
        /\ last.added = PackIds(last.arg.buf)

\* C20 (bases from the store): the commit of a pack whose only entry is a
\* delta against a stored object succeeds and stores the object the delta
\* makes of that stored base.
C20_BaseFromStore ==
    \A a \in Objects :
        LET b == ShaFileOf(a.type_num, apply_delta(str(a.fields), 1)) IN
        (/\ last.op = "commit"
         /\ ~last.arg.closed
         /\ last.arg.buf = <<DeltaTok(a.id, 1)>>
         /\ a.id \in DOMAIN coll \ last.added
         /\ b.id \notin DOMAIN coll \ last.added) =>
            /\ last.err = ""
            /\ b.id \in DOMAIN coll
            /\ coll[b.id] = Doc(b)
====
